---- MODULE Spec2Model ----
(***************************************************************************)
(* Faceted filtering, fuzzy search and URL synchronisation of the paper    *)
(* browser: src/js/filters.js (Filters) and src/js/app.js (page start-up,  *)
(* Charts).                                                                *)
(*                                                                         *)
(* A JavaScript string is a sequence of one-character strings, so that     *)
(* trim, split, join and the form-urlencoded codec are computed and not    *)
(* assumed.  A paper is a record; an absent field of the JSON object is a  *)
(* field that is not in the record's DOMAIN.                               *)
(***************************************************************************)
EXTENDS Integers, Sequences, FiniteSets, TLC

\* ------------------------------------------------------------------ strings

sEmpty == <<>>
sA == <<"A">>
sB == <<"B">>
sC == <<"C">>
sZ == <<"Z">>
sX == <<"X">>
sK == <<"K">>
sP == <<"p">>
sR == <<"r">>
sQR == <<"q", ",", "r">>
sAb == <<"a", "b">>
sAbz == <<"a", "b", "z">>
sAbInput == <<" ", "a", "b", " ">>
sZz == <<"z", "z">>
sOne == <<"a">>
s2022 == <<"2", "0", "2", "2">>
s2023 == <<"2", "0", "2", "3">>
sUndefined == <<"u", "n", "d", "e", "f", "i", "n", "e", "d">>

Dims == <<"domain", "category", "conference", "year", "keyword">>
DimSet == {Dims[i] : i \in DOMAIN Dims}

DigitChar == <<"0", "1", "2", "3", "4", "5", "6", "7", "8", "9">>

\* String(n) for a non-negative integer.
RECURSIVE NumToString(_)
NumToString(n) ==
  IF n < 10 THEN <<DigitChar[n + 1]>>
  ELSE NumToString(n \div 10) \o <<DigitChar[(n % 10) + 1]>>

\* Array.prototype.includes over strings.
Includes(arr, v) == \E i \in DOMAIN arr : arr[i] = v

\* String.prototype.trim: leading and trailing blanks go.
RECURSIVE TrimLeft(_)
TrimLeft(s) == IF s # <<>> /\ Head(s) = " " THEN TrimLeft(Tail(s)) ELSE s

RECURSIVE TrimRight(_)
TrimRight(s) ==
  IF s # <<>> /\ s[Len(s)] = " " THEN TrimRight(SubSeq(s, 1, Len(s) - 1)) ELSE s

Trim(s) == TrimRight(TrimLeft(s))

\* A slip: join("") in place of join(",").
RECURSIVE JoinNoSeparator(_)
JoinNoSeparator(arr) ==
  IF arr = <<>> THEN <<>> ELSE arr[1] \o JoinNoSeparator(Tail(arr))

\* Array.prototype.join(",").
RECURSIVE Join(_)
Join(arr) ==
  IF arr = <<>> THEN <<>>
  ELSE IF Len(arr) = 1 THEN arr[1]
  ELSE arr[1] \o <<",">> \o Join(Tail(arr))

\* String.prototype.split(","): the empty string gives one empty piece.
RECURSIVE SplitFrom(_, _, _, _)
SplitFrom(s, i, cur, acc) ==
  IF i > Len(s) THEN Append(acc, cur)
  ELSE IF s[i] = "," THEN SplitFrom(s, i + 1, <<>>, Append(acc, cur))
  ELSE SplitFrom(s, i + 1, Append(cur, s[i]), acc)

Split(s) == SplitFrom(s, 1, <<>>, <<>>)

\* application/x-www-form-urlencoded, as URLSearchParams.toString writes a
\* value: a blank becomes "+", a reserved character its %XX escape.
EncodeChar(c) ==
  CASE c = " " -> <<"+">>
    [] c = "," -> <<"%", "2", "C">>
    [] c = "+" -> <<"%", "2", "B">>
    [] c = "%" -> <<"%", "2", "5">>
    [] OTHER -> <<c>>

RECURSIVE Encode(_)
Encode(s) == IF s = <<>> THEN <<>> ELSE EncodeChar(Head(s)) \o Encode(Tail(s))

\* The decoding done by new URLSearchParams(location.search).
RECURSIVE Decode(_)
Decode(s) ==
  IF s = <<>> THEN <<>>
  ELSE IF Head(s) = "+" THEN <<" ">> \o Decode(Tail(s))
  ELSE IF Head(s) = "%" /\ Len(s) >= 3 /\ s[2] = "2" /\ s[3] \in {"C", "B", "5", "0"}
    THEN <<(CASE s[3] = "C" -> ","
              [] s[3] = "B" -> "+"
              [] s[3] = "5" -> "%"
              [] s[3] = "0" -> " ")>> \o Decode(SubSeq(s, 4, Len(s)))
  ELSE <<Head(s)>> \o Decode(Tail(s))

\* ------------------------------------------------------------------- papers

\* p[field] is present (the JSON object has the key).
Has(p, field) == field \in DOMAIN p

\* String(p[field]) for a present field: year is a number, the rest strings.
FieldString(p, field) == IF field = "year" THEN NumToString(p[field]) ELSE p[field]

\* JavaScript truthiness of p[field]: absent, "" and 0 are falsy.
Truthy(p, field) ==
  /\ Has(p, field)
  /\ IF field = "year" THEN p[field] # 0 ELSE p[field] # <<>>

\* (p.matchedKeywords || [])
KeywordsOf(p) == IF Has(p, "matchedKeywords") THEN p.matchedKeywords ELSE <<>>

\* ------------------------------------------------------------ fuzzy index

minMatchCharLength == 2

\* q occurs in t as a run of consecutive characters.
Contains(t, q) ==
  \E i \in 1..(Len(t) - Len(q) + 1) : SubSeq(t, i, i + Len(q) - 1) = q

MaxTitleLen(papers) ==
  LET lens == {Len(papers[i].title) : i \in {j \in DOMAIN papers : Has(papers[j], "title")}}
  IN IF lens = {} THEN 0 ELSE CHOOSE m \in lens : \A l \in lens : l <= m

RECURSIVE ByRelevance(_, _, _)
ByRelevance(hits, len, maxLen) ==
  IF len > maxLen THEN <<>>
  ELSE SelectSeq(hits, LAMBDA p : Len(p.title) = len) \o ByRelevance(hits, len + 1, maxLen)

\* fuse.search(query) over the index built from the catalog on the title key:
\* the matched items, best match first.  The library is abstracted to its
\* exact matches: a query shorter than minMatchCharLength matches nothing, a
\* title matches when it contains the query, and a shorter title (a higher
\* field-length norm) ranks before a longer one, the catalog index breaking ties.
FuseSearch(papers, query) ==
  IF Len(query) < minMatchCharLength THEN <<>>
  ELSE ByRelevance(
         SelectSeq(papers, LAMBDA p : Has(p, "title") /\ Contains(p.title, query)),
         0, MaxTitleLen(papers))

\* ------------------------------------------------------------ facet counts

\* A slip: counts[key] = 1, the earlier count forgotten.
BumpNoAdd(counts, key) ==
  IF key \in DOMAIN counts THEN [counts EXCEPT ![key] = 1]
  ELSE counts @@ (key :> 1)

\* counts[key] = (counts[key] || 0) + 1
Bump(counts, key) ==
  IF key \in DOMAIN counts THEN [counts EXCEPT ![key] = @ + 1]
  ELSE counts @@ (key :> 1)

\* countBy(papers, field): value -> number of papers with that value, one
\* pass over the papers; a paper whose value is falsy counts nowhere.
RECURSIVE countByFrom(_, _, _, _)
countByFrom(papers, field, i, counts) ==
  IF i > Len(papers) THEN counts
  ELSE countByFrom(papers, field, i + 1,
         IF Truthy(papers[i], field)
           THEN Bump(counts, FieldString(papers[i], field))
           ELSE counts)

\* A slip: the pass starts at the second paper.
countBySkipFirst(papers, field) == countByFrom(papers, field, 2, <<>>)

countBy(papers, field) == countByFrom(papers, field, 1, <<>>)

RECURSIVE BumpAll(_, _, _)
BumpAll(counts, kws, j) ==
  IF j > Len(kws) THEN counts ELSE BumpAll(Bump(counts, kws[j]), kws, j + 1)

\* countKeywords(papers): tag -> number of occurrences over all papers.
RECURSIVE countKeywordsFrom(_, _, _)
countKeywordsFrom(papers, i, counts) ==
  IF i > Len(papers) THEN counts
  ELSE countKeywordsFrom(papers, i + 1, BumpAll(counts, KeywordsOf(papers[i]), 1))

countKeywords(papers) == countKeywordsFrom(papers, 1, <<>>)

\* ---------------------------------------------------------- filter engine

EmptyState ==
  [search |-> <<>>, domain |-> <<>>, category |-> <<>>, conference |-> <<>>,
   year |-> <<>>, keyword |-> <<>>]

\* A slip: the hits themselves are kept, in the order of the search results.
FilterSearchByRelevance(result, papers, query) ==
  SelectSeq(FuseSearch(papers, query),
            LAMBDA hit : \E i \in DOMAIN result : result[i].id = hit.id)

\* A slip: the search restricts only when it has hits.
FilterSearchSkipEmpty(result, papers, query) ==
  LET searchResults == FuseSearch(papers, query)
      matchedIds == {searchResults[i].id : i \in DOMAIN searchResults}
  IN IF matchedIds = {} THEN result
     ELSE SelectSeq(result, LAMBDA p : p.id \in matchedIds)

\* result.filter(p => matchedIds.has(p.id)), matchedIds the ids of the hits.
FilterSearch(result, papers, query) ==
  LET searchResults == FuseSearch(papers, query)
      matchedIds == {searchResults[i].id : i \in DOMAIN searchResults}
  IN SelectSeq(result, LAMBDA p : p.id \in matchedIds)

\* result.filter(p => selection.includes(p[field])) for domain, category and
\* conference: an absent value is undefined and equals no string.
FilterField(result, selection, field) ==
  SelectSeq(result, LAMBDA p : Has(p, field) /\ Includes(selection, p[field]))

\* String(p.year): an absent year prints as "undefined".
YearString(p) == IF Has(p, "year") THEN NumToString(p.year) ELSE sUndefined

\* A slip: state.year.includes(p.year), a number that equals no string.
FilterYearNoString(result, selection) ==
  SelectSeq(result, LAMBDA p : FALSE)

\* result.filter(p => state.year.includes(String(p.year)))
FilterYear(result, selection) ==
  SelectSeq(result, LAMBDA p : Includes(selection, YearString(p)))

\* result.filter(p => state.keyword.some(kw => (p.matchedKeywords || []).includes(kw)))
FilterKeyword(result, selection) ==
  SelectSeq(result, LAMBDA p :
    \E k \in DOMAIN selection : Includes(KeywordsOf(p), selection[k]))

\* A slip: the domain restriction guarded by length >= 0.
NarrowAlwaysDomain(st, papers) ==
  LET r1 == IF st.search # <<>> THEN FilterSearch(papers, papers, st.search) ELSE papers
      r2 == FilterField(r1, st.domain, "domain")
      r3 == IF Len(st.category) > 0 THEN FilterField(r2, st.category, "category") ELSE r2
      r4 == IF Len(st.conference) > 0 THEN FilterField(r3, st.conference, "conference") ELSE r3
      r5 == IF Len(st.year) > 0 THEN FilterYear(r4, st.year) ELSE r4
  IN IF Len(st.keyword) > 0 THEN FilterKeyword(r5, st.keyword) ELSE r5

\* The narrowing of applyFilters: the catalog goes through each active
\* restriction in turn.
Narrow(st, papers) ==
  LET r0 == papers
      r1 == IF st.search # <<>> THEN FilterSearch(r0, papers, st.search) ELSE r0
      r2 == IF Len(st.domain) > 0 THEN FilterField(r1, st.domain, "domain") ELSE r1
      r3 == IF Len(st.category) > 0 THEN FilterField(r2, st.category, "category") ELSE r2
      r4 == IF Len(st.conference) > 0 THEN FilterField(r3, st.conference, "conference") ELSE r3
      r5 == IF Len(st.year) > 0 THEN FilterYear(r4, st.year) ELSE r4
      r6 == IF Len(st.keyword) > 0 THEN FilterKeyword(r5, st.keyword) ELSE r5
  IN r6

\* A slip: the copy of the narrowing has lost the search restriction.
getFilteredPapersNoSearch(st, papers) ==
  LET byDomain == IF Len(st.domain) > 0 THEN FilterField(papers, st.domain, "domain") ELSE papers
      byCategory == IF Len(st.category) > 0
                      THEN FilterField(byDomain, st.category, "category") ELSE byDomain
      byConference == IF Len(st.conference) > 0
                        THEN FilterField(byCategory, st.conference, "conference") ELSE byCategory
      byYear == IF Len(st.year) > 0 THEN FilterYear(byConference, st.year) ELSE byConference
  IN IF Len(st.keyword) > 0 THEN FilterKeyword(byYear, st.keyword) ELSE byYear

\* getFilteredPapers: its own copy of the narrowing, returning the result
\* and doing nothing else.
getFilteredPapers(st, papers) ==
  LET bySearch == IF st.search # <<>>
                    THEN LET searchResults == FuseSearch(papers, st.search)
                             matchedIds == {searchResults[i].id : i \in DOMAIN searchResults}
                         IN SelectSeq(papers, LAMBDA p : p.id \in matchedIds)
                    ELSE papers
      byDomain == IF Len(st.domain) > 0
                    THEN SelectSeq(bySearch, LAMBDA p :
                           Has(p, "domain") /\ Includes(st.domain, p.domain))
                    ELSE bySearch
      byCategory == IF Len(st.category) > 0
                      THEN SelectSeq(byDomain, LAMBDA p :
                             Has(p, "category") /\ Includes(st.category, p.category))
                      ELSE byDomain
      byConference == IF Len(st.conference) > 0
                        THEN SelectSeq(byCategory, LAMBDA p :
                               Has(p, "conference") /\ Includes(st.conference, p.conference))
                        ELSE byCategory
      byYear == IF Len(st.year) > 0
                  THEN SelectSeq(byConference, LAMBDA p : Includes(st.year, YearString(p)))
                  ELSE byConference
  IN IF Len(st.keyword) > 0
       THEN SelectSeq(byYear, LAMBDA p :
              \E k \in DOMAIN st.keyword : Includes(KeywordsOf(p), st.keyword[k]))
       ELSE byYear

\* ---------------------------------------------------------------- URL codec

\* The query string is the list of its key=value pairs, each value in its
\* encoded form; the empty list is the bare path.
Param(key, value) == <<key, Encode(value)>>

\* params.has(key)
ParamsHas(params, key) == \E i \in DOMAIN params : params[i][1] = key

\* params.get(key): the decoded value of the first pair with that key.
ParamsGet(params, key) ==
  Decode(params[CHOOSE i \in DOMAIN params :
                  /\ params[i][1] = key
                  /\ \A j \in 1..(i - 1) : params[j][1] # key][2])

\* A slip: q is written whatever the search string is.
saveToURLAlwaysQ(st) ==
  <<Param("q", st.search)>>
  \o (IF Len(st.domain) > 0 THEN <<Param("domain", Join(st.domain))>> ELSE <<>>)
  \o (IF Len(st.category) > 0 THEN <<Param("cat", Join(st.category))>> ELSE <<>>)
  \o (IF Len(st.conference) > 0 THEN <<Param("conf", Join(st.conference))>> ELSE <<>>)
  \o (IF Len(st.year) > 0 THEN <<Param("year", Join(st.year))>> ELSE <<>>)
  \o (IF Len(st.keyword) > 0 THEN <<Param("kw", Join(st.keyword))>> ELSE <<>>)

\* saveToURL: a key is written only for a non-empty part of the state.
saveToURL(st) ==
  (IF st.search # <<>> THEN <<Param("q", st.search)>> ELSE <<>>)
  \o (IF Len(st.domain) > 0 THEN <<Param("domain", Join(st.domain))>> ELSE <<>>)
  \o (IF Len(st.category) > 0 THEN <<Param("cat", Join(st.category))>> ELSE <<>>)
  \o (IF Len(st.conference) > 0 THEN <<Param("conf", Join(st.conference))>> ELSE <<>>)
  \o (IF Len(st.year) > 0 THEN <<Param("year", Join(st.year))>> ELSE <<>>)
  \o (IF Len(st.keyword) > 0 THEN <<Param("kw", Join(st.keyword))>> ELSE <<>>)

\* One facet of loadFromURL: if (params.has(key)) state[dim] = params.get(key).split(",")
LoadFacet(params, key, old) ==
  IF ParamsHas(params, key) THEN Split(ParamsGet(params, key)) ELSE old

\* loadFromURL: the state after reading the query string into st.
loadFromURL(params, st) ==
  [search |-> IF ParamsHas(params, "q") THEN ParamsGet(params, "q") ELSE st.search,
   domain |-> LoadFacet(params, "domain", st.domain),
   category |-> LoadFacet(params, "cat", st.category),
   conference |-> LoadFacet(params, "conf", st.conference),
   year |-> LoadFacet(params, "year", st.year),
   keyword |-> LoadFacet(params, "kw", st.keyword)]

\* ------------------------------------------------------------------- charts

\* The three aggregations that Charts.update hands to the chart instances:
\* papers per domain, per category (a falsy category counts as Uncategorized)
\* and per conference_year pair.
sUncategorized == <<"Uncategorized">>

RECURSIVE AggregateFrom(_, _, _)
AggregateFrom(papers, i, agg) ==
  IF i > Len(papers) THEN agg
  ELSE LET p == papers[i]
           dom == IF Has(p, "domain") THEN p.domain ELSE sUndefined
           cat == IF Truthy(p, "category") THEN p.category ELSE sUncategorized
           conf == IF Has(p, "conference") THEN p.conference ELSE sUndefined
       IN AggregateFrom(papers, i + 1,
            [domain |-> Bump(agg.domain, dom),
             category |-> Bump(agg.category, cat),
             yearConf |-> Bump(agg.yearConf, conf \o <<"_">> \o YearString(p))])

Aggregate(papers) ==
  AggregateFrom(papers, 1, [domain |-> <<>>, category |-> <<>>, yearConf |-> <<>>])

\* Charts.update(papers): nothing while the panel is collapsed; otherwise
\* updateDomainChart calls domainChart.setOption, a TypeError while the
\* instances are still null.  shown is the one-element list of what the
\* charts display, empty before any setOption.
ChartsUpdate(shown, visible, instances, papers) ==
  IF ~visible THEN [shown |-> shown, threw |-> FALSE]
  ELSE IF instances = "null" THEN [shown |-> shown, threw |-> TRUE]
  ELSE [shown |-> <<Aggregate(papers)>>, threw |-> FALSE]

\* ------------------------------------------------------------ the catalogs

Paper1 ==
  [id |-> 1, title |-> sAbz, domain |-> sA, category |-> sX, conference |-> sK,
   year |-> 2023, matchedKeywords |-> <<sQR>>]
Paper2 ==
  [id |-> 2, title |-> sAb, domain |-> sB, category |-> sEmpty, conference |-> sK,
   year |-> 2023, matchedKeywords |-> <<>>]
Paper3 ==
  [id |-> 3, title |-> sZ, domain |-> sEmpty, conference |-> sK]

\* The catalog of the page: a category is empty, a domain is empty, a year,
\* a category and the tags are absent, and the one tag has a comma.
PageCatalog == <<Paper1, Paper2, Paper3>>

\* The catalog of the OR-within/AND-across example, two of its papers tagged.
Example1 == [id |-> 1, title |-> sAb, domain |-> sA, year |-> 2023, matchedKeywords |-> <<sP>>]
Example2 == [id |-> 2, title |-> sAbz, domain |-> sB, year |-> 2022, matchedKeywords |-> <<sR, sP>>]
Example3 == [id |-> 3, title |-> sZz, domain |-> sC, year |-> 2023]
ExampleCatalog == <<Example1, Example2, Example3>>

\* -------------------------------------------------------------------- state

VARIABLES
  pc,             \* "loaded": papers.json fetched, page not started; "running"
  catalog,        \* app.js allPapers, the fetched catalog
  allPapers,      \* Filters' allPapers ([] until init)
  state,          \* Filters' state
  url,            \* the query string of window.location
  searchInput,    \* value of #search-input
  searchTimer,    \* the handle in searchTimer (0: undefined)
  timers,         \* handles of the pending timeouts
  chips,          \* rendered chips: dimension -> (value -> count shown)
  chipActive,     \* the <<dimension, value>> chips carrying class "active"
  resultCount,    \* the count written to #result-count (-1: none yet)
  tableData,      \* the rows of the Tabulator grid
  chartShown,     \* what the charts display: <<>> or <<aggregation>>
  chartInstances, \* "null" or "ready": domainChart, categoryChart, yearConfChart
  chartsVisible,  \* Charts' chartsVisible
  callbackDone,   \* the last call of the change callback returned normally
  lastEvent,      \* history: the event handled last
  toggleRun,      \* history: 1 or 2 when the last one or two events were clicks
                  \* on the same chip (a third click starts a new run), else 0
  before,         \* history: the filter state before the run's first click
  effects,        \* history: what the handler run last did, in the order done
  resetPending    \* history: "pending" from a reset made with a timeout pending,
                  \* "fired" once that timeout has fired, "no" from the next
                  \* input event on (and before any such reset)

vars ==
  <<pc, catalog, allPapers, state, url, searchInput, searchTimer, timers, chips,
    chipActive, resultCount, tableData, chartShown, chartInstances, chartsVisible,
    callbackDone, lastEvent, toggleRun, before, effects,
    resetPending>>

MaxTimers == 2
TimerIds == 1..MaxTimers

\* What the user can have in the search box.
InputValues == {sEmpty, sAbInput, sZz}

\* renderChips: the five count maps, all taken from the full catalog.
renderChips(papers) ==
  [d \in DimSet |-> IF d = "keyword" THEN countKeywords(papers) ELSE countBy(papers, d)]

\* The chips on the page.
ChipSet(ch) == UNION {{<<d, v>> : v \in DOMAIN ch[d]} : d \in DimSet}

\* A slip: only the first occurrence is removed (splice at indexOf).
ToggleFacetFirstOnly(selection, value) ==
  IF Includes(selection, value)
    THEN LET i == CHOOSE k \in DOMAIN selection :
                    selection[k] = value /\ \A j \in 1..(k - 1) : selection[j] # value
         IN SubSeq(selection, 1, i - 1) \o SubSeq(selection, i + 1, Len(selection))
    ELSE Append(selection, value)

\* The chip click handler's change of one selection.
ToggleFacet(selection, value) ==
  IF Includes(selection, value)
    THEN SelectSeq(selection, LAMBDA v : v # value)
    ELSE Append(selection, value)

\* A slip: the pending timeout is not cancelled.
ClearTimeoutNothing(pending, handle) == pending

\* clearTimeout(handle)
ClearTimeout(pending, handle) == pending \ {handle}

\* A slip: the callback is called before the URL and the count are written.
EffectsCallbackFirst(st, result) ==
  << <<"onFilterChange", result>>,
     <<"saveToURL", saveToURL(st)>>,
     <<"updateResultCount", Len(result)>> >>

\* The tail of applyFilters: saveToURL(), updateResultCount(result.length),
\* onFilterChange(result), each with what it is given.
Effects(st, result) ==
  << <<"saveToURL", saveToURL(st)>>,
     <<"updateResultCount", Len(result)>>,
     <<"onFilterChange", result>> >>

\* applyFilters with the state st: narrow, saveToURL, updateResultCount, then
\* the callback of app.js: table.setData(filtered); Charts.update(filtered).
applyFilters(st) ==
  LET result == Narrow(st, allPapers)
      upd == ChartsUpdate(chartShown, chartsVisible, chartInstances, result)
  IN /\ url' = saveToURL(st)
     /\ resultCount' = Len(result)
     /\ tableData' = result
     /\ chartShown' = upd.shown
     /\ callbackDone' = ~upd.threw
     /\ effects' = Effects(st, result)

\* The body of app.js once papers.json is there: Filters.init(allPapers, cb),
\* then Charts.init() and Charts.update(allPapers).  An exception of the
\* callback leaves Filters.init and the async function, and the rest of the
\* body is not run.
AppStart ==
  /\ pc = "loaded"
  /\ pc' = "running"
  /\ allPapers' = catalog
  /\ chips' = renderChips(catalog)
  /\ LET st == loadFromURL(url, state)
         result == Narrow(st, catalog)
         first == ChartsUpdate(chartShown, chartsVisible, chartInstances, result)
     IN /\ state' = st
        /\ searchInput' = IF ParamsHas(url, "q") THEN st.search ELSE searchInput
        /\ chipActive' = {c \in ChipSet(chips') : Includes(st[c[1]], c[2])}
        /\ url' = saveToURL(st)
        /\ resultCount' = Len(result)
        /\ tableData' = result
        /\ effects' = Effects(st, result)
        /\ IF first.threw
             THEN /\ callbackDone' = FALSE
                  /\ chartShown' = first.shown
                  /\ chartInstances' = chartInstances
             ELSE /\ callbackDone' = TRUE
                  /\ chartInstances' = "ready"
                  /\ chartShown' =
                       ChartsUpdate(first.shown, chartsVisible, "ready", catalog).shown
  /\ lastEvent' = <<"start">>
  /\ resetPending' = "no"
  /\ toggleRun' = 0
  /\ before' = EmptyState
  /\ UNCHANGED <<catalog, searchTimer, timers, chartsVisible>>

\* The click handler of the chip (d, v).
ChipClickStep(d, v) ==
  /\ pc = "running"
  /\ <<d, v>> \in ChipSet(chips)
  /\ state' = [state EXCEPT ![d] = ToggleFacet(state[d], v)]
  /\ chipActive' = IF Includes(state[d], v) THEN chipActive \ {<<d, v>>}
                   ELSE chipActive \cup {<<d, v>>}
  /\ applyFilters(state')
  /\ UNCHANGED <<pc, catalog, allPapers, searchInput, searchTimer, timers, chips,
                 chartInstances, chartsVisible, resetPending>>

\* A click on the chip (d, v).
ChipClick(d, v) ==
  /\ ChipClickStep(d, v)
  /\ lastEvent' = <<"chip">>
  /\ toggleRun' = 0
  /\ before' = EmptyState

\* The same click, with the history of runs of clicks on one chip kept.
ChipClickTracked(d, v) ==
  /\ ChipClickStep(d, v)
  /\ lastEvent' = <<"chip", d, v>>
  /\ IF lastEvent = <<"chip", d, v>> /\ toggleRun = 1
       THEN toggleRun' = 2 /\ before' = before
       ELSE toggleRun' = 1 /\ before' = state

\* An input event of the search box, the box then holding value.
SearchInput(value) ==
  /\ pc = "running"
  /\ \E id \in TimerIds \ ClearTimeout(timers, searchTimer) :
       /\ \A other \in TimerIds \ ClearTimeout(timers, searchTimer) : id <= other
       /\ searchTimer' = id
       /\ timers' = ClearTimeout(timers, searchTimer) \cup {id}
  /\ searchInput' = value
  /\ lastEvent' = <<"input">>
  /\ resetPending' = "no"
  /\ effects' = <<>>
  /\ toggleRun' = 0
  /\ before' = EmptyState
  /\ UNCHANGED <<pc, catalog, allPapers, state, url, chips, chipActive, resultCount,
                 tableData, chartShown, chartInstances, chartsVisible, callbackDone>>

\* The timeout id fires: state.search = searchInput.value.trim(); applyFilters().
TimerFire(id) ==
  /\ id \in timers
  /\ timers' = timers \ {id}
  /\ state' = [state EXCEPT !.search = Trim(searchInput)]
  /\ applyFilters(state')
  /\ lastEvent' = <<"timer">>
  /\ resetPending' = IF resetPending = "pending" THEN "fired" ELSE resetPending
  /\ toggleRun' = 0
  /\ before' = EmptyState
  /\ UNCHANGED <<pc, catalog, allPapers, searchInput, searchTimer, chips, chipActive,
                 chartInstances, chartsVisible>>

\* A slip: the chips keep their active mark over a reset.
resetFiltersKeepActive ==
  /\ pc = "running"
  /\ state' = EmptyState
  /\ searchInput' = <<>>
  /\ chipActive' = chipActive
  /\ applyFilters(state')
  /\ lastEvent' = <<"reset">>
  /\ resetPending' = IF timers # {} THEN "pending" ELSE "no"
  /\ toggleRun' = 0
  /\ before' = EmptyState
  /\ UNCHANGED <<pc, catalog, allPapers, searchTimer, timers, chips, chartInstances,
                 chartsVisible>>

\* A slip: the search box keeps its text over a reset.
resetFiltersKeepInput ==
  /\ pc = "running"
  /\ state' = EmptyState
  /\ searchInput' = searchInput
  /\ chipActive' = {}
  /\ applyFilters(state')
  /\ lastEvent' = <<"reset">>
  /\ resetPending' = IF timers # {} THEN "pending" ELSE "no"
  /\ toggleRun' = 0
  /\ before' = EmptyState
  /\ UNCHANGED <<pc, catalog, allPapers, searchTimer, timers, chips, chartInstances,
                 chartsVisible>>

\* resetFilters, the click handler of #btn-reset.
resetFilters ==
  /\ pc = "running"
  /\ state' = EmptyState
  /\ searchInput' = <<>>
  /\ chipActive' = {}
  /\ applyFilters(state')
  /\ lastEvent' = <<"reset">>
  /\ resetPending' = IF timers # {} THEN "pending" ELSE "no"
  /\ toggleRun' = 0
  /\ before' = EmptyState
  /\ UNCHANGED <<pc, catalog, allPapers, searchTimer, timers, chips, chartInstances,
                 chartsVisible>>

\* A click on #btn-toggle-charts.  Its listener is added by Charts.init, so a
\* click before that finds no handler; the handler flips chartsVisible and
\* leaves the charts' content alone (the later resize() redraws, it sets no data).
ToggleChartsClick ==
  /\ pc = "running"
  /\ chartsVisible' = IF chartInstances = "ready" THEN ~chartsVisible ELSE chartsVisible
  /\ lastEvent' = <<"charts">>
  /\ resetPending' = resetPending
  /\ effects' = <<>>
  /\ toggleRun' = 0
  /\ before' = EmptyState
  /\ UNCHANGED <<pc, catalog, allPapers, state, url, searchInput, searchTimer, timers,
                 chips, chipActive, resultCount, tableData, chartShown, chartInstances,
                 callbackDone>>

\* The query strings a page can be opened with.
PageURLs ==
  { <<>>,
    <<<<"q", <<"+", "a", "b">>>>, <<"utm", sX>>>>,
    <<<<"domain", <<"A", ",", "A">>>>>>,
    <<<<"domain", sEmpty>>, <<"year", sUndefined>>>>,
    <<<<"conf", sZ>>, <<"kw", <<"p", "%", "2", "C", "r">>>>>> }

InitWith(papers, params) ==
  /\ pc = "loaded"
  /\ catalog = papers
  /\ allPapers = <<>>
  /\ state = EmptyState
  /\ url = params
  /\ searchInput = <<>>
  /\ searchTimer = 0
  /\ timers = {}
  /\ chips = [d \in DimSet |-> <<>>]
  /\ chipActive = {}
  /\ resultCount = -1
  /\ tableData = papers
  /\ chartShown = <<>>
  /\ chartInstances = "null"
  /\ chartsVisible = TRUE
  /\ callbackDone = TRUE
  /\ lastEvent = <<"none">>
  /\ toggleRun = 0
  /\ before = EmptyState
  /\ effects = <<>>
  /\ resetPending = "no"

Init == \E params \in PageURLs : InitWith(PageCatalog, params)

Next ==
  \/ AppStart
  \/ \E c \in ChipSet(chips) : ChipClick(c[1], c[2])
  \/ \E value \in InputValues : SearchInput(value)
  \/ \E id \in TimerIds : TimerFire(id)
  \/ resetFilters
  \/ ToggleChartsClick

Spec == Init /\ [][Next]_vars

NextTracked ==
  \/ AppStart
  \/ \E c \in ChipSet(chips) : ChipClickTracked(c[1], c[2])
  \/ \E value \in InputValues : SearchInput(value)
  \/ \E id \in TimerIds : TimerFire(id)
  \/ resetFilters
  \/ ToggleChartsClick

MaxSel == 2

\* The selections of at most MaxSel values out of S, in every order, with
\* repetitions.
SeqsUpTo(S, n) == UNION {[1..k -> S] : k \in 0..n}

\* The ways a query string can carry the key: not at all, or with a list.
KeyOptions(key, lists) == {<<>>} \cup {<<Param(key, Join(l))>> : l \in lists \ {<<>>}}

\* Query strings that restore filter states of every shape.
ApplyURLs ==
  { q \o dom \o cat \o conf \o yr \o kw :
      q \in {<<>>, <<Param("q", sAb)>>, <<Param("q", sZz)>>, <<Param("q", sOne)>>},
      dom \in KeyOptions("domain", SeqsUpTo({sA, sB}, MaxSel)),
      cat \in {<<>>, <<Param("cat", sX)>>},
      conf \in {<<>>, <<Param("conf", sK)>>, <<Param("conf", sZ)>>},
      yr \in KeyOptions("year", SeqsUpTo({s2023, sUndefined}, MaxSel)),
      kw \in {<<>>, <<Param("kw", sP)>>, <<Param("kw", <<"r", ",", "p">>)>>} }

InitApply ==
  \E papers \in {PageCatalog, ExampleCatalog} : \E params \in ApplyURLs :
    InitWith(papers, params)

\* The page opened on a catalog with a query string: the filter engine on
\* every catalog and filter state of the bounds.
SpecApply == InitApply /\ [][AppStart]_vars

\* The page with the history of chip-click runs.
SpecToggle == Init /\ [][NextTracked]_vars

\* ------------------------------------------------------------------- claims

Range(seq) == {seq[i] : i \in DOMAIN seq}

FilterKeys == {"q", "domain", "cat", "conf", "year", "kw"}
SingleDims == {"domain", "category", "conference", "year"}

\* The ids the fuzzy index matches for the query.
MatchSet(papers, query) ==
  LET hits == FuseSearch(papers, query) IN {hits[i].id : i \in DOMAIN hits}

\* p passes every active restriction of st.
Satisfies(p, st, papers) ==
  /\ st.search # <<>> => p.id \in MatchSet(papers, st.search)
  /\ \A d \in {"domain", "category", "conference"} :
       st[d] # <<>> => Has(p, d) /\ p[d] \in Range(st[d])
  /\ st.year # <<>> => YearString(p) \in Range(st.year)
  /\ st.keyword # <<>> => Range(KeywordsOf(p)) \cap Range(st.keyword) # {}

\* C1: for every catalog and filter state, the sequence applyFilters delivers
\* holds exactly the catalog records that pass all active restrictions: in
\* the match set when search is non-empty, and for every dimension with a
\* non-empty selection a value (String(year) for year, one of the tags for
\* keyword) among the selected ones.
C1_ExactlySatisfying ==
  pc = "running" =>
    /\ Range(tableData) =
         {allPapers[i] : i \in {j \in DOMAIN allPapers : Satisfies(allPapers[j], state, allPapers)}}
    /\ Len(tableData) =
         Cardinality({j \in DOMAIN allPapers : Satisfies(allPapers[j], state, allPapers)})

\* The example: domain = {A, B}, year = {2023} gives exactly record 1.
C1_Witness ==
  /\ pc = "running"
  /\ allPapers = ExampleCatalog
  /\ state.domain = <<sA, sB>>
  /\ state.year = <<s2023>>
  /\ state.search = <<>> /\ state.keyword = <<>>
  /\ tableData = <<Example1>>

\* No selected facet value has a comma.
NoComma(st) == \A d \in DimSet : \A i \in DOMAIN st[d] : "," \notin Range(st[d][i])

\* C2: loadFromURL, run on a fresh state with the query string saveToURL
\* wrote, gives back the search string and, as sets, the five selections,
\* whenever no selected value has a comma.
C2_RoundTrip ==
  (pc = "running" /\ NoComma(state)) =>
    LET back == loadFromURL(url, EmptyState)
    IN /\ back.search = state.search
       /\ \A d \in DimSet : Range(back[d]) = Range(state[d])

\* A search string and two domains, set by the timer and by chip clicks.
C2_Witness ==
  /\ pc = "running"
  /\ lastEvent \in {<<"chip">>, <<"timer">>}
  /\ state.search = sAb
  /\ state.domain = <<sB, sA>>
  /\ state.category = <<sX>>
  /\ Len(url) = 3

\* C3: no facet selection holds a value twice.
C3_NoDuplicates ==
  \A d \in DimSet : \A i, j \in DOMAIN state[d] :
    i # j => state[d][i] # state[d][j]

\* C4: after a chip click, a timer fire or a reset, the URL is the encoding
\* of the state, the grid holds the filtered records and the charts show
\* their aggregation.
C4_AllConsistent ==
  lastEvent \in {<<"chip">>, <<"timer">>, <<"reset">>} =>
    /\ url = saveToURL(state)
    /\ tableData = Narrow(state, allPapers)
    /\ chartShown = <<Aggregate(Narrow(state, allPapers))>>

\* C5: two clicks in a row on the same chip leave that dimension's selection
\* the same set, and the search string and the other selections unchanged.
C5_ToggleTwice ==
  toggleRun = 2 =>
    /\ state.search = before.search
    /\ \A d \in DimSet :
         IF d = lastEvent[2] THEN Range(state[d]) = Range(before[d])
         ELSE state[d] = before[d]

\* Two clicks on a chip whose value the selection held twice: the same set,
\* another list.
C5_Witness ==
  /\ toggleRun = 2
  /\ lastEvent[2] = "domain"
  /\ before.domain = <<sA, sA>>
  /\ state.domain = <<sA>>

\* C6: after resetFilters the search string and the five selections are
\* empty, the delivered sequence is the catalog and the URL has no filter key.
C6_Reset ==
  lastEvent = <<"reset">> =>
    /\ state.search = <<>>
    /\ \A d \in DimSet : state[d] = <<>>
    /\ tableData = allPapers
    /\ \A i \in DOMAIN url : url[i][1] \notin FilterKeys

\* A reset from a search box that is not empty, with a timer still pending.
C6_Witness ==
  /\ lastEvent = <<"reset">>
  /\ timers # {}
  /\ url = <<>>
  /\ tableData = PageCatalog

\* C7: at most one search evaluation is pending; an input event leaves the
\* one it scheduled; the string a timer wrote is the box's trimmed value.
C7_Debounce ==
  /\ Cardinality(timers) <= 1
  /\ lastEvent = <<"input">> => timers = {searchTimer}
  /\ lastEvent = <<"timer">> =>
       /\ state.search = Trim(searchInput)
       /\ state.search # <<>> => Head(state.search) # " " /\ state.search[Len(state.search)] # " "

\* A timer has fired on a box whose value has blanks around it.
C7_Witness ==
  /\ lastEvent = <<"timer">>
  /\ searchInput = sAbInput
  /\ state.search = sAb
  /\ timers = {}

\* C8: a record with an absent or empty domain, category, conference or year
\* is in no count of that dimension and is not delivered when the dimension
\* has a selection; a record without tags is not delivered when keyword has one.
C8_AbsentExcluded ==
  pc = "running" =>
    \A i \in DOMAIN allPapers :
      /\ \A d \in SingleDims :
           ~Truthy(allPapers[i], d) =>
             /\ \A k \in DOMAIN chips[d] :
                  chips[d][k] = Cardinality({j \in DOMAIN allPapers :
                                  /\ Truthy(allPapers[j], d)
                                  /\ FieldString(allPapers[j], d) = k})
             /\ state[d] # <<>> => allPapers[i] \notin Range(tableData)
      /\ (KeywordsOf(allPapers[i]) = <<>> /\ state.keyword # <<>>) =>
           allPapers[i] \notin Range(tableData)

\* C9: a non-empty search string without a match gives the empty result and
\* the count 0, whatever the selections.
C9_SearchDominance ==
  (pc = "running" /\ state.search # <<>> /\ MatchSet(allPapers, state.search) = {}) =>
    tableData = <<>> /\ resultCount = 0

\* A search without a match, beside a domain selection that matches.
C9_Witness ==
  /\ pc = "running"
  /\ state.search = sZz
  /\ allPapers = PageCatalog
  /\ state.domain = <<sA, sB>>
  /\ state.year = <<>>
  /\ resultCount = 0

\* C10: with an empty search string and five empty selections the delivered
\* sequence is the catalog, same members, same order.
C10_EmptyIdentity ==
  (pc = "running" /\ state = EmptyState) => tableData = allPapers

\* The empty state, reached by taking the last selected chip off.
C10_Witness ==
  /\ pc = "running"
  /\ state = EmptyState
  /\ lastEvent = <<"chip">>
  /\ tableData = PageCatalog
  /\ resultCount = 3

\* C11: the delivered sequence is a subsequence of the catalog: its records
\* are catalog records at strictly increasing catalog positions, whatever the
\* order of the search results.
C11_CatalogOrder ==
  pc = "running" =>
    \E f \in [DOMAIN tableData -> DOMAIN allPapers] :
      /\ \A k \in DOMAIN tableData : tableData[k] = allPapers[f[k]]
      /\ \A k, l \in DOMAIN tableData : k < l => f[k] < f[l]

\* A search whose best hit is the catalog's second record: the delivered
\* sequence keeps the catalog order.
C11_Witness ==
  /\ pc = "running"
  /\ state.search = sAb
  /\ FuseSearch(allPapers, state.search) = <<Paper2, Paper1>>
  /\ tableData = <<Paper1, Paper2>>

\* The query-string key of a dimension.
KeyOf(d) ==
  CASE d = "domain" -> "domain"
    [] d = "category" -> "cat"
    [] d = "conference" -> "conf"
    [] d = "year" -> "year"
    [] d = "keyword" -> "kw"

\* The value occurs in no catalog record as the value of the dimension.
Stale(d, v) ==
  \A i \in DOMAIN allPapers :
    IF d = "keyword" THEN v \notin Range(KeywordsOf(allPapers[i]))
    ELSE ~(Has(allPapers[i], d) /\ FieldString(allPapers[i], d) = v)

\* C12: the URL written holds only filter keys; a selected value that occurs
\* in no catalog record is written back to the URL; and a dimension whose
\* selection holds only such values gives the empty result with count 0.
C12_StaleInert ==
  pc = "running" =>
    /\ \A i \in DOMAIN url : url[i][1] \in FilterKeys
    /\ \A d \in DimSet : \A k \in DOMAIN state[d] :
         Stale(d, state[d][k]) =>
           /\ ParamsHas(url, KeyOf(d))
           /\ state[d][k] \in Range(Split(ParamsGet(url, KeyOf(d))))
    /\ \A d \in DimSet :
         (state[d] # <<>> /\ \A k \in DOMAIN state[d] : Stale(d, state[d][k])) =>
           tableData = <<>> /\ resultCount = 0

\* The sum of the counts of a count map.
RECURSIVE SumCounts(_, _)
SumCounts(counts, keys) ==
  IF keys = {} THEN 0
  ELSE LET k == CHOOSE x \in keys : TRUE
       IN counts[k] + SumCounts(counts, keys \ {k})

\* C13: for domain, category, conference or year, when every catalog record
\* has a value, the counts of countBy over the catalog sum to the catalog size.
C13_CountsSum ==
  pc = "running" =>
    \A d \in SingleDims :
      (\A i \in DOMAIN allPapers : Truthy(allPapers[i], d)) =>
        SumCounts(chips[d], DOMAIN chips[d]) = Len(allPapers)

\* Three records with years 2023, 2022, 2023: the counts 2 and 1.
C13_Witness ==
  /\ pc = "running"
  /\ allPapers = ExampleCatalog
  /\ DOMAIN chips["year"] = {s2023, s2022}
  /\ chips["year"][s2023] = 2
  /\ chips["year"][s2022] = 1

\* C14: the initial load, a chip click, a timer fire and a reset each do,
\* once and in this order: write the URL of the new state, report the count,
\* which is the length of the filtered sequence, and call the callback with
\* that sequence; all three are done when the handler has ended.
C14_NotifyOrder ==
  lastEvent[1] \in {"start", "chip", "timer", "reset"} =>
    /\ Len(effects) = 3
    /\ effects[1] = <<"saveToURL", saveToURL(state)>>
    /\ effects[2] = <<"updateResultCount", Len(effects[3][2])>>
    /\ effects[3] = <<"onFilterChange", Narrow(state, allPapers)>>
    /\ url = effects[1][2] /\ resultCount = effects[2][2] /\ tableData = effects[3][2]

\* A timer fire that delivered a narrowed sequence.
C14_Witness ==
  /\ lastEvent = <<"timer">>
  /\ state.search = sAb
  /\ effects[2] = <<"updateResultCount", 2>>
  /\ effects[3] = <<"onFilterChange", <<Paper1, Paper2>>>>

\* C15: what getFilteredPapers returns is the sequence passed last to the
\* change callback (the callback hands its argument to the grid, so tableData
\* is that sequence).
C15_ExportAgrees ==
  pc = "running" => getFilteredPapers(state, allPapers) = tableData

\* Asked after an input event that has not been evaluated yet: the search
\* box holds another string than the state.
C15_Witness ==
  /\ lastEvent = <<"input">>
  /\ searchInput = sZz
  /\ state.search = sAb
  /\ state.domain = <<sA>>
  /\ getFilteredPapers(state, allPapers) = <<Paper1>>

\* The record has the value in the dimension (for keyword: among its tags).
HasValue(p, d, v) ==
  IF d = "keyword" THEN v \in Range(KeywordsOf(p))
  ELSE Truthy(p, d) /\ FieldString(p, d) = v

\* C16: at every moment after the chips were rendered, whatever was clicked,
\* typed or reset since, there is a chip for every value of the catalog and
\* its count is the number of catalog records with that value.
C16_ChipCounts ==
  pc = "running" =>
    \A d \in DimSet :
      /\ DOMAIN chips[d] =
           UNION {IF d = "keyword" THEN Range(KeywordsOf(allPapers[i]))
                  ELSE IF Truthy(allPapers[i], d)
                         THEN {FieldString(allPapers[i], d)} ELSE {} :
                  i \in DOMAIN allPapers}
      /\ \A v \in DOMAIN chips[d] :
           chips[d][v] = Cardinality({i \in DOMAIN allPapers : HasValue(allPapers[i], d, v)})

\* After a chip click has narrowed the view to one record, the conference
\* chip still shows the three records of the catalog.
C16_Witness ==
  /\ lastEvent = <<"chip">>
  /\ state.domain = <<sA>>
  /\ tableData = <<Paper1>>
  /\ chips["conference"][sK] = 3
  /\ chips["domain"][sB] = 1

\* C17: the first call of the change callback, made inside Filters.init,
\* finds the charts initialized and returns normally.
C17_ChartsBeforeUpdate ==
  lastEvent = <<"start">> => callbackDone /\ chartInstances = "ready"

\* C18: from a reset made while a search evaluation is pending until the
\* next input event, the search string stays empty; when the pending timer
\* has fired the delivered sequence is the one of the state without search,
\* the whole catalog if no chip was clicked since the reset.
C18_ResetNotUndone ==
  resetPending \in {"pending", "fired"} =>
    /\ state.search = <<>>
    /\ tableData = Narrow([state EXCEPT !.search = <<>>], allPapers)
    /\ (resetPending = "fired" /\ \A d \in DimSet : state[d] = <<>>) =>
         tableData = allPapers /\ url = <<>>

\* The timer set before the reset has fired right after it.
C18_Witness ==
  /\ resetPending = "fired"
  /\ lastEvent = <<"timer">>
  /\ state = EmptyState
  /\ tableData = PageCatalog
  /\ timers = {}

\* C19: a rendered chip carries the active mark exactly when its value is in
\* the state's selection of its dimension.
C19_ChipMirrorsState ==
  pc = "running" =>
    \A c \in ChipSet(chips) : c \in chipActive <=> c[2] \in Range(state[c[1]])

\* After a URL restore with a value that has no chip and a click on a chip:
\* the clicked chip is the only active one.
C19_Witness ==
  /\ lastEvent = <<"chip">>
  /\ state.conference = <<sZ>>
  /\ state.domain = <<sB>>
  /\ chipActive = {<<"domain", sB>>}

====
